---- MODULE Spec2Model ----
(***************************************************************************)
(* Render graph of the Inexor vulkan-renderer: declaration of stages and   *)
(* resources, RenderGraph::compile, RenderGraph::render, the graphics      *)
(* pipeline builder and the frame loop of the application.                 *)
(*                                                                         *)
(* Spec           declares a graph stage by stage and compiles it.         *)
(* SpecRecompile  also calls compile() again on the compiled graph.        *)
(* SpecFrame      starts from a declared graph and runs the frame loop     *)
(*                (upload_data, compile, render).                          *)
(* SpecStray      is the frame loop on a graph with an unregistered buffer.*)
(* SpecBuilder    calls the setters, build() and the move constructor of   *)
(*                one pipeline builder.                                    *)
(* SpecHost       is the application: recreate_swapchain and render_frame. *)
(* SpecHostUpload adds the uploads made between frames.                    *)
(* SpecHostFair   is SpecHost with a GPU that completes submitted work.    *)
(* SpecRenderPass applies build_render_pass to one stage.                  *)
(* SpecOctree     applies generate_octree_indices to one mesh.             *)
(***************************************************************************)
EXTENDS Integers, Sequences, FiniteSets, TLC

\* ------------------------------------------------------------------ bounds
\* stages that can be registered with the graph
NumStages == 2
\* reads_from / writes_to / bind_buffer declarations of one graph
MaxDecls == 4
\* render() calls of one run
MaxFrames == 2
\* images of the swapchain
NumSwapImages == 2
\* calls of setters of optional state on one pipeline builder
MaxSetterCalls == 2
\* build() calls on one pipeline builder
MaxBuilds == 2
\* resize events of one run
MaxResizes == 2
\* writes_to declarations of the stage handed to build_render_pass
MaxWrites == 3
\* compile() calls on one graph
MaxCompiles == 2
\* vertices of the octree mesh handed to generate_octree_indices
MaxVertices == 4

\* ------------------------------------------------------ resources, stages
Textures == {"back_buffer", "texture"}
Buffers == {"index_buffer", "vertex_buffer"}
Resources == Textures \cup Buffers
\* a BufferResource that was not made by RenderGraph::add: it is in no list of the
\* graph and compile() gives it no physical resource
Unregistered == {"stray_buffer"}
Stages == 1..NumStages
Bindings == {0}
\* what the declarations range over: stages write render targets and bind the vertex
\* buffers; buffers are filled by upload_data
WriteTargets == Textures
VertexBuffers == {"vertex_buffer"}
\* the resource compile() is called with (the back buffer, as in recreate_swapchain)
CompileTarget == "back_buffer"
Targets == {CompileTarget}

\* BufferResource::m_usage / TextureResource::m_usage of the registered resources
m_usage ==
    [r \in Resources \cup Unregistered |->
        CASE r = "back_buffer" -> "BACK_BUFFER"
          [] r = "texture" -> "NORMAL"
          [] r = "index_buffer" -> "INDEX_BUFFER"
          [] r = "vertex_buffer" -> "VERTEX_BUFFER"
          [] r = "stray_buffer" -> "VERTEX_BUFFER"]

VARIABLES
    m_stages,              \* number of registered stages; stage i is the i-th registered
    m_reads,               \* RenderStage::m_reads, per stage
    m_writes,              \* RenderStage::m_writes, per stage
    m_buffer_bindings,     \* GraphicsStage::m_buffer_bindings, per stage: set of <<buffer, binding>>
    m_stage_stack,         \* RenderGraph::m_stage_stack
    m_physical,            \* RenderResource::m_physical, per resource: kind and instance of the physical resource
    m_buffer,              \* PhysicalBuffer::m_buffer, per buffer: 0 is nullptr, k the k-th buffer made for it
    m_framebuffers,        \* PhysicalGraphicsStage::m_framebuffers, per stage: the image views of each
    m_pipeline,            \* PhysicalStage::m_pipeline, per stage: built or not
    m_data_upload_needed,  \* BufferResource::m_data_upload_needed
    compile_state,         \* how the last compile() call ended
    compiles,              \* compile() calls made on the graph
    gpu_log,               \* GPU objects created by the last compile() call, in order
    thrown,                \* the exception that left the last operation, if any
    vk_failed,             \* the Vulkan call of the last operation that returned no VK_SUCCESS, if any
    trace,                 \* commands and buffer operations of the last render() call, in order
    frames,                \* render() calls so far
    requests,              \* upload_data calls per buffer since the last render() call: 0, 1, 2 for more
    last_requests,         \* what requests was when render() was called last
    builder,               \* the members of one GraphicsPipelineBuilder
    builder_state,         \* "constructed", "accumulating", "built", "aborted" (a failed assert) or "move_constructed"
    built,                 \* names of the pipelines build() has created, in order
    calls,                 \* setter calls made on the builder
    ndebug,                \* the build defines NDEBUG: assert() checks nothing
    host_state,            \* the application: "constructing", "running" or "terminated" (an exception left it)
    m_window_resized,      \* VulkanRenderer::m_window_resized
    m_render_graph,        \* VulkanRenderer::m_render_graph: 0 is nullptr, k the k-th RenderGraph made
    host_refs,             \* the graph the resources and stages the host holds pointers to belong to
    m_frame_finished_fence, \* the fence is signaled
    in_flight,             \* the GPU still works on the frame submitted last
    host_log,              \* the steps of the last render_frame() call or of the constructor, in order
    host_frames,           \* render_frame() calls so far
    resizes,               \* resize events so far
    descriptor_set_layout, \* the DescriptorSetLayout of the application: its members, made or not
    attach_stage,          \* a GraphicsStage handed to build_render_pass: the usages of m_writes, m_clears_screen
    render_pass_ci,        \* the VkRenderPassCreateInfo build_render_pass made for attach_stage, if any
    m_octree_vertices,     \* the vertices of the octree mesh
    m_octree_indices,      \* the indices of the octree mesh
    old_vertices           \* old_vertices of the last generate_octree_indices() call

graphVars == <<m_stages, m_reads, m_writes, m_buffer_bindings>>
physVars == <<m_stage_stack, m_physical, m_buffer, m_framebuffers, m_pipeline, compile_state, compiles, gpu_log,
              thrown, vk_failed>>
frameVars == <<m_data_upload_needed, trace, frames, requests, last_requests>>
builderVars == <<builder, builder_state, built, calls, ndebug>>
hostVars == <<host_state, m_window_resized, m_render_graph, host_refs, m_frame_finished_fence,
              in_flight, host_log, host_frames, resizes, descriptor_set_layout>>
unitVars == <<attach_stage, render_pass_ci, m_octree_vertices, m_octree_indices, old_vertices>>
vars == <<graphVars, physVars, frameVars, builderVars, hostVars, unitVars>>

\* ------------------------------------------------------------ helpers
RECURSIVE SumLen(_, _)
SumLen(f, n) == IF n = 0 THEN 0 ELSE Len(f[n]) + SumLen(f, n - 1)

RECURSIVE SumCard(_, _)
SumCard(f, n) == IF n = 0 THEN 0 ELSE Cardinality(f[n]) + SumCard(f, n - 1)

\* declarations made on the graph so far
Decls == SumLen(m_reads, NumStages) + SumLen(m_writes, NumStages) + SumCard(m_buffer_bindings, NumStages)

Range(s) == {s[i] : i \in DOMAIN s}

RECURSIVE Occurrences(_, _)
Occurrences(seq, x) ==
    IF seq = <<>> THEN 0
    ELSE (IF Head(seq) = x THEN 1 ELSE 0) + Occurrences(Tail(seq), x)

RECURSIVE Repeat(_, _)
Repeat(x, n) == IF n = 0 THEN <<>> ELSE <<x>> \o Repeat(x, n - 1)

HasBinding(stage, buffer) == \E p \in m_buffer_bindings[stage] : p[1] = buffer

\* ------------------------------------------------------------ declaration
\* RenderGraph::add<GraphicsStage>
AddStage ==
    /\ compile_state = "declared"
    /\ m_stages < NumStages
    /\ m_stages' = m_stages + 1
    /\ UNCHANGED <<m_reads, m_writes, m_buffer_bindings, physVars, frameVars, builderVars, unitVars, hostVars>>

\* RenderStage::writes_to
WritesTo(stage, resource) ==
    /\ compile_state = "declared"
    /\ stage <= m_stages
    /\ Decls < MaxDecls
    /\ m_writes' = [m_writes EXCEPT ![stage] = Append(@, resource)]
    /\ UNCHANGED <<m_stages, m_reads, m_buffer_bindings, physVars, frameVars, builderVars, unitVars, hostVars>>

\* RenderStage::reads_from
ReadsFrom(stage, resource) ==
    /\ compile_state = "declared"
    /\ stage <= m_stages
    /\ Decls < MaxDecls
    /\ m_reads' = [m_reads EXCEPT ![stage] = Append(@, resource)]
    /\ UNCHANGED <<m_stages, m_writes, m_buffer_bindings, physVars, frameVars, builderVars, unitVars, hostVars>>

\* GraphicsStage::bind_buffer: unordered_map::emplace keeps an existing entry
BindBuffer(stage, buffer, binding) ==
    /\ compile_state = "declared"
    /\ stage <= m_stages
    /\ Decls < MaxDecls
    /\ ~HasBinding(stage, buffer)
    /\ m_buffer_bindings' = [m_buffer_bindings EXCEPT ![stage] = @ \cup {<<buffer, binding>>}]
    /\ UNCHANGED <<m_stages, m_reads, m_writes, physVars, frameVars, builderVars, unitVars, hostVars>>

\* ------------------------------------------------------------ compile
\* writers[resource] of compile(): the stages in registration order, each once per
\* occurrence of the resource in its m_writes
RECURSIVE WritersUpTo(_, _)
WritersUpTo(resource, n) ==
    IF n = 0 THEN <<>>
    ELSE WritersUpTo(resource, n - 1) \o Repeat(n, Occurrences(m_writes[n], resource))

\* the helper map filled from the last registered stage to the first
RECURSIVE WritersDownFrom(_, _)
WritersDownFrom(resource, n) ==
    IF n = 0 THEN <<>>
    ELSE Repeat(n, Occurrences(m_writes[n], resource)) \o WritersDownFrom(resource, n - 1)

writers_reversed(resource) == WritersDownFrom(resource, m_stages)

\* the helper map of compile(): the writers of a resource, in the order of m_stages
writers(resource) == WritersUpTo(resource, m_stages)

\* The dfs lambda of compile(). It does no colouring: a stage that is entered while
\* it is still on the call path is entered again and again, the recursion never
\* returns and the call stack overflows.
RECURSIVE dfs(_, _), DfsReads(_, _), DfsWriters(_, _)
\* dfs with the stage pushed before its producers are visited
dfs_preorder(stage, path) ==
    IF stage \in path
    THEN [overflow |-> TRUE, order |-> <<>>]
    ELSE LET sub == DfsReads(m_reads[stage], path \cup {stage})
         IN IF sub.overflow THEN sub
            ELSE [overflow |-> FALSE, order |-> <<stage>> \o sub.order]

dfs(stage, path) ==
    IF stage \in path
    THEN [overflow |-> TRUE, order |-> <<>>]
    ELSE LET sub == DfsReads(m_reads[stage], path \cup {stage})
         IN IF sub.overflow THEN sub
            ELSE [overflow |-> FALSE, order |-> Append(sub.order, stage)]

DfsReads(reads, path) ==
    IF reads = <<>> THEN [overflow |-> FALSE, order |-> <<>>]
    ELSE LET first == DfsWriters(writers(Head(reads)), path)
         IN IF first.overflow THEN first
            ELSE LET rest == DfsReads(Tail(reads), path)
                 IN IF rest.overflow THEN rest
                    ELSE [overflow |-> FALSE, order |-> first.order \o rest.order]

DfsWriters(ws, path) ==
    IF ws = <<>> THEN [overflow |-> FALSE, order |-> <<>>]
    ELSE LET first == dfs(Head(ws), path)
         IN IF first.overflow THEN first
            ELSE LET rest == DfsWriters(Tail(ws), path)
                 IN IF rest.overflow THEN rest
                    ELSE [overflow |-> FALSE, order |-> first.order \o rest.order]

\* the DFS started from every registered stage instead of the writers of the target
StageOrderFromAllStages(target) == DfsWriters([i \in 1..m_stages |-> i], {})

\* "DFS starting from writers of target"
StageOrder(target) == DfsWriters(writers(target), {})

GpuObject(kind, stage, resource) == [obj |-> kind, stage |-> stage, res |-> resource]

\* the wrapper::Image objects made for the textures that are no back buffer
RECURSIVE ImageObjects(_)
ImageObjects(ts) ==
    IF ts = {} THEN <<>>
    ELSE LET t == CHOOSE x \in ts : TRUE
         IN (IF m_usage[t] = "BACK_BUFFER" THEN <<>> ELSE <<GpuObject("image", 0, t)>>)
            \o ImageObjects(ts \ {t})

\* build_graphics_pipeline: m_buffer_bindings.at() throws std::out_of_range for a
\* buffer that is read, is no index buffer and has no binding
MissingBinding(stage) ==
    \E i \in DOMAIN m_reads[stage] :
        /\ m_reads[stage][i] \in Buffers \cup Unregistered
        /\ m_usage[m_reads[stage][i]] # "INDEX_BUFFER"
        /\ ~HasBinding(stage, m_reads[stage][i])

\* the GPU objects of one physical stage, in creation order
StageObjects(stage) ==
    <<GpuObject("render_pass", stage, ""), GpuObject("pipeline_layout", stage, "")>>
    \o (IF MissingBinding(stage) THEN <<>>
        ELSE <<GpuObject("pipeline", stage, "")>>
             \o (IF m_writes[stage] # <<>>
                 THEN Repeat(GpuObject("framebuffer", stage, ""), NumSwapImages)
                 ELSE <<>>))

\* the VkResult values a creation call returns besides VK_SUCCESS
VkErrors == {"VK_ERROR_OUT_OF_HOST_MEMORY", "VK_ERROR_OUT_OF_DEVICE_MEMORY"}

\* a Vulkan call with the result it returns; stage is the stage it is made for, 0 for none
VkCall(op, stage, result) == [op |-> op, stage |-> stage, result |-> result]
NoFailure == VkCall("", 0, "VK_SUCCESS")

\* the vkCreateRenderPass calls that can fail in one compile() call
RenderPassFailures ==
    {NoFailure} \cup {VkCall("vkCreateRenderPass", s, r) : s \in Stages, r \in VkErrors}

\* exceptions: VulkanException carries the message, which names the call, and the result
Exception(type, op, stage, result) == [type |-> type, op |-> op, stage |-> stage, result |-> result]
NoException == Exception("none", "", 0, "VK_SUCCESS")
VulkanException(call) == Exception("VulkanException", call.op, call.stage, call.result)
OutOfRange(stage) == Exception("std::out_of_range", "", stage, "VK_SUCCESS")

\* the loop over m_stage_stack with the result of vkCreateRenderPass not looked at
RECURSIVE BuildStagesUnchecked(_, _)
BuildStagesUnchecked(stack, fail) ==
    IF stack = <<>> THEN [thrown |-> NoException, failed |-> NoFailure, log |-> <<>>, built |-> {}]
    ELSE IF MissingBinding(Head(stack))
         THEN [thrown |-> OutOfRange(Head(stack)),
               failed |-> IF fail.stage = Head(stack) THEN fail ELSE NoFailure,
               log |-> StageObjects(Head(stack)), built |-> {}]
         ELSE LET rest == BuildStagesUnchecked(Tail(stack), fail)
              IN [thrown |-> rest.thrown,
                  failed |-> IF fail.stage = Head(stack) THEN fail ELSE rest.failed,
                  log |-> StageObjects(Head(stack)) \o rest.log,
                  built |-> {Head(stack)} \cup rest.built]

\* "Create physical stages": the loop over m_stage_stack, left at the first throw,
\* of build_render_pass when vkCreateRenderPass fails for the stage, of
\* build_graphics_pipeline when a binding is missing
RECURSIVE BuildStages(_, _)
BuildStages(stack, fail) ==
    IF stack = <<>> THEN [thrown |-> NoException, failed |-> NoFailure, log |-> <<>>, built |-> {}]
    ELSE IF fail.stage = Head(stack)
         THEN [thrown |-> VulkanException(fail), failed |-> fail, log |-> <<>>, built |-> {}]
         ELSE IF MissingBinding(Head(stack))
              THEN [thrown |-> OutOfRange(Head(stack)), failed |-> NoFailure,
                    log |-> StageObjects(Head(stack)), built |-> {}]
              ELSE LET rest == BuildStages(Tail(stack), fail)
                   IN [thrown |-> rest.thrown,
                       failed |-> rest.failed,
                       log |-> StageObjects(Head(stack)) \o rest.log,
                       built |-> {Head(stack)} \cup rest.built]

PhysicalKind(resource) ==
    IF resource \in Buffers THEN "PhysicalBuffer"
    ELSE IF m_usage[resource] = "BACK_BUFFER" THEN "PhysicalBackBuffer" ELSE "PhysicalImage"

\* RenderGraph::m_buffer_resources, in registration order
m_buffer_resources == <<"index_buffer", "vertex_buffer">>

\* RenderGraph::m_texture_resources, in registration order
m_texture_resources == <<"back_buffer", "texture">>

\* compile() with one PhysicalBuffer shared by the buffer resources
PhysicalAliased ==
    LET made == m_buffer_resources \o m_texture_resources
    IN [r \in Resources |->
           [kind |-> PhysicalKind(r),
            id |-> IF r \in Buffers THEN 1 ELSE CHOOSE i \in DOMAIN made : made[i] = r]]

\* "Create physical resources": one std::make_shared per buffer resource, then one
\* per texture resource; id numbers the instances in the order they are made
PhysicalResources ==
    LET made == m_buffer_resources \o m_texture_resources
    IN [r \in Resources |->
           [kind |-> PhysicalKind(r), id |-> CHOOSE i \in DOMAIN made : made[i] = r]]

\* a VkImageView: of the swapchain image with the index, or of the image of a texture
SwapchainView(index) == [of |-> "swapchain", index |-> index, texture |-> ""]
ImageView(texture) == [of |-> "image", index |-> 0, texture |-> texture]

\* the loop of compile() over stage->m_writes: the physical back buffers and the
\* physical images of the textures the stage writes
WrittenOfKind(stage, kind) ==
    SelectSeq(m_writes[stage], LAMBDA r : r \in Textures /\ PhysicalKind(r) = kind)

\* the image_views of the framebuffer of one swapchain image: std::fill_n of the
\* swapchain view for the back buffers, then the view of every image
FramebufferViews(stage, index) ==
    [i \in DOMAIN WrittenOfKind(stage, "PhysicalBackBuffer") |-> SwapchainView(index)]
    \o [i \in DOMAIN WrittenOfKind(stage, "PhysicalImage") |->
            ImageView(WrittenOfKind(stage, "PhysicalImage")[i])]

\* compile() that makes the framebuffer of the first swapchain image only
FramebufferOfFirstImage(stage) == <<FramebufferViews(stage, 0)>>

\* the m_framebuffers of a stage: one emplace_back per view of m_swapchain.image_views()
Framebuffers(stage) == [k \in 1..NumSwapImages |-> FramebufferViews(stage, k - 1)]

\* the members compile() works on, as they are in the graph at hand
CurrentGraph ==
    [m_stage_stack |-> m_stage_stack, m_physical |-> m_physical, m_buffer |-> m_buffer,
     m_framebuffers |-> m_framebuffers, m_pipeline |-> m_pipeline, gpu_log |-> gpu_log,
     compiles |-> compiles]

\* and as the constructor of RenderGraph leaves them
FreshGraph ==
    [m_stage_stack |-> <<>>,
     m_physical |-> [r \in Resources |-> [kind |-> "null", id |-> 0]],
     m_buffer |-> [b \in Buffers |-> 0],
     m_framebuffers |-> [s \in Stages |-> <<>>],
     m_pipeline |-> [s \in Stages |-> FALSE],
     gpu_log |-> <<>>,
     compiles |-> 0]

\* the body of RenderGraph::compile on a graph with the members prev: the members
\* it leaves and how it ends
CompileResult(prev, target, fail) ==
    LET found == StageOrder(target)
        stack == prev.m_stage_stack \o found.order
        phys == BuildStages(stack, fail)
    IN IF found.overflow
       THEN [m_stage_stack |-> prev.m_stage_stack, m_physical |-> prev.m_physical,
             m_buffer |-> prev.m_buffer, m_framebuffers |-> prev.m_framebuffers,
             m_pipeline |-> prev.m_pipeline, gpu_log |-> prev.gpu_log,
             compiles |-> prev.compiles + 1,
             thrown |-> NoException, vk_failed |-> NoFailure,
             compile_state |-> "stack_overflow"]
       ELSE [m_stage_stack |-> stack,
             m_physical |-> PhysicalResources,
             m_buffer |-> [b \in Buffers |-> 0],
             m_framebuffers |->
                 [s \in Stages |->
                     IF s \in phys.built /\ m_writes[s] # <<>> THEN Framebuffers(s) ELSE <<>>],
             m_pipeline |-> [s \in Stages |-> s \in phys.built],
             gpu_log |-> ImageObjects(Textures) \o phys.log,
             compiles |-> prev.compiles + 1,
             thrown |-> phys.thrown,
             vk_failed |-> phys.failed,
             compile_state |->
                 CASE phys.thrown.type = "none" -> "compiled"
                   [] phys.thrown.type = "std::out_of_range" -> "out_of_range"
                   [] phys.thrown.type = "VulkanException" -> "vulkan_exception"]

\* the graph takes the members and the end of a compile() call
Compiled(result) ==
    /\ m_stage_stack' = result.m_stage_stack
    /\ m_physical' = result.m_physical
    /\ m_buffer' = result.m_buffer
    /\ m_framebuffers' = result.m_framebuffers
    /\ m_pipeline' = result.m_pipeline
    /\ gpu_log' = result.gpu_log
    /\ compiles' = result.compiles
    /\ thrown' = result.thrown
    /\ vk_failed' = result.vk_failed
    /\ compile_state' = result.compile_state

\* RenderGraph::compile
Compile(target) ==
    /\ compile_state = "declared"
    /\ \E fail \in RenderPassFailures : Compiled(CompileResult(CurrentGraph, target, fail))
    /\ UNCHANGED <<graphVars, frameVars, builderVars, unitVars, hostVars>>

\* RenderGraph::compile called again on the graph it has compiled
Recompile(target) ==
    /\ compile_state = "compiled"
    /\ compiles < MaxCompiles
    /\ \E fail \in RenderPassFailures : Compiled(CompileResult(CurrentGraph, target, fail))
    /\ UNCHANGED <<graphVars, frameVars, builderVars, unitVars, hostVars>>

\* ------------------------------------------------------------ pipeline builder
\* the members as their default member initializers ({}) leave them
DefaultMembers ==
    [m_shader_stages |-> <<>>,
     m_vertex_input_binding_descriptions |-> <<>>,
     m_vertex_input_attribute_descriptions |-> <<>>,
     m_vertex_input_sci |-> [vertexBindingDescriptionCount |-> 0, vertexAttributeDescriptionCount |-> 0],
     m_input_assembly_sci |-> [topology |-> "POINT_LIST", primitiveRestartEnable |-> FALSE],
     m_tesselation_sci |-> [patchControlPoints |-> 0],
     m_viewports |-> <<>>,
     m_scissors |-> <<>>,
     m_viewport_sci |-> [viewportCount |-> 0, scissorCount |-> 0],
     m_rasterization_sci |-> [polygonMode |-> "FILL", cullMode |-> "NONE",
                              frontFace |-> "COUNTER_CLOCKWISE", lineWidth |-> 0],
     m_depth_stencil_sci |-> [depthTestEnable |-> FALSE, depthWriteEnable |-> FALSE],
     m_swapchain_img_format |-> 0,
     m_depth_attachment_format |-> 0,
     m_stencil_attachment_format |-> 0,
     m_color_attachments |-> <<>>,
     m_pipeline_rendering_ci |-> [colorAttachmentCount |-> 0, colorAttachmentFormat |-> 0,
                                  depthAttachmentFormat |-> 0, stencilAttachmentFormat |-> 0],
     m_multisample_sci |-> [rasterizationSamples |-> 0, sampleShadingEnable |-> FALSE,
                            minSampleShading |-> 0],
     m_color_blend_sci |-> [attachmentCount |-> 0],
     m_dynamic_states |-> <<>>,
     m_dynamic_states_sci |-> [dynamicStateCount |-> 0],
     m_pipeline_layout |-> 0,
     m_color_blend_attachment_states |-> <<>>,
     m_push_constant_ranges |-> <<>>,
     m_descriptor_set_layout |-> 0]

\* GraphicsPipelineBuilder::reset
reset(b) ==
    [b EXCEPT
        !.m_swapchain_img_format = 0,
        !.m_depth_attachment_format = 0,
        !.m_stencil_attachment_format = 0,
        !.m_pipeline_layout = 0,
        !.m_vertex_input_binding_descriptions = <<>>,
        !.m_vertex_input_attribute_descriptions = <<>>,
        !.m_vertex_input_sci = [vertexBindingDescriptionCount |-> 0, vertexAttributeDescriptionCount |-> 0],
        !.m_input_assembly_sci = [topology |-> "TRIANGLE_LIST", primitiveRestartEnable |-> FALSE],
        !.m_tesselation_sci = [patchControlPoints |-> 0],
        !.m_viewports = <<>>,
        !.m_scissors = <<>>,
        !.m_viewport_sci = [viewportCount |-> 0, scissorCount |-> 0],
        !.m_rasterization_sci = [polygonMode |-> "FILL", cullMode |-> "BACK",
                                 frontFace |-> "CLOCKWISE", lineWidth |-> 1],
        !.m_multisample_sci = [rasterizationSamples |-> 1, sampleShadingEnable |-> FALSE,
                               minSampleShading |-> 1],
        !.m_depth_stencil_sci = [depthTestEnable |-> FALSE, depthWriteEnable |-> FALSE],
        !.m_color_blend_sci = [attachmentCount |-> 0],
        !.m_dynamic_states = <<>>,
        !.m_dynamic_states_sci = [dynamicStateCount |-> 0]]

\* GraphicsPipelineBuilder::GraphicsPipelineBuilder(const Device &)
Constructed == reset(DefaultMembers)

\* GraphicsPipelineBuilder::GraphicsPipelineBuilder(GraphicsPipelineBuilder &&): the
\* members of the new builder. The members the body does not assign keep their default
\* member initializers, and m_rasterization_sci is assigned from itself.
MoveConstructed(other) ==
    [DefaultMembers EXCEPT
        !.m_depth_attachment_format = other.m_depth_attachment_format,
        !.m_stencil_attachment_format = other.m_stencil_attachment_format,
        !.m_swapchain_img_format = other.m_swapchain_img_format,
        !.m_pipeline_rendering_ci = other.m_pipeline_rendering_ci,
        !.m_vertex_input_sci = other.m_vertex_input_sci,
        !.m_input_assembly_sci = other.m_input_assembly_sci,
        !.m_tesselation_sci = other.m_tesselation_sci,
        !.m_viewport_sci = other.m_viewport_sci,
        !.m_rasterization_sci = DefaultMembers.m_rasterization_sci,
        !.m_multisample_sci = other.m_multisample_sci,
        !.m_depth_stencil_sci = other.m_depth_stencil_sci,
        !.m_color_blend_sci = other.m_color_blend_sci,
        !.m_dynamic_states_sci = other.m_dynamic_states_sci,
        !.m_pipeline_layout = other.m_pipeline_layout,
        !.m_dynamic_states = other.m_dynamic_states,
        !.m_viewports = other.m_viewports,
        !.m_scissors = other.m_scissors,
        !.m_shader_stages = other.m_shader_stages,
        !.m_vertex_input_binding_descriptions = other.m_vertex_input_binding_descriptions,
        !.m_vertex_input_attribute_descriptions = other.m_vertex_input_attribute_descriptions,
        !.m_color_blend_attachment_states = other.m_color_blend_attachment_states]

\* a builder is move-constructed from the builder; it is the builder from then on
MoveConstruct ==
    /\ builder_state \in {"constructed", "accumulating", "built"}
    /\ builder' = MoveConstructed(builder)
    /\ builder_state' = "move_constructed"
    /\ UNCHANGED <<graphVars, physVars, frameVars, built, calls, ndebug, hostVars, unitVars>>

\* the assert() calls of build()
BuildAsserts(b, name) ==
    /\ name # ""
    /\ b.m_vertex_input_binding_descriptions # <<>>
    /\ b.m_vertex_input_attribute_descriptions # <<>>
    /\ b.m_viewports # <<>>
    /\ b.m_scissors # <<>>
    /\ b.m_pipeline_layout # 0

\* the members as build() has set them when it creates the pipeline
Assembled(b) ==
    [b EXCEPT
        !.m_vertex_input_sci =
            [vertexBindingDescriptionCount |-> Len(b.m_vertex_input_binding_descriptions),
             vertexAttributeDescriptionCount |-> Len(b.m_vertex_input_attribute_descriptions)],
        !.m_viewport_sci = [viewportCount |-> Len(b.m_viewports), scissorCount |-> Len(b.m_scissors)],
        !.m_dynamic_states_sci =
            IF b.m_dynamic_states # <<>>
            THEN [dynamicStateCount |-> Len(b.m_dynamic_states)] ELSE b.m_dynamic_states_sci,
        !.m_pipeline_rendering_ci =
            [colorAttachmentCount |-> 1,
             colorAttachmentFormat |-> b.m_swapchain_img_format,
             depthAttachmentFormat |-> b.m_depth_attachment_format,
             stencilAttachmentFormat |-> b.m_stencil_attachment_format]]

\* GraphicsPipelineBuilder::build
Build(name) ==
    /\ builder_state \in {"constructed", "accumulating", "built"}
    /\ Len(built) < MaxBuilds
    /\ IF ~ndebug /\ ~BuildAsserts(builder, name)
       THEN /\ builder_state' = "aborted"
            /\ UNCHANGED <<builder, built>>
       ELSE /\ builder' = reset(Assembled(builder))
            /\ built' = Append(built, name)
            /\ builder_state' = "built"
    /\ UNCHANGED <<graphVars, physVars, frameVars, calls, ndebug, hostVars, unitVars>>

\* one call of a setter that leaves the members as b; the setters of the state
\* build() insists on are not counted
Setter(b, counted) ==
    /\ builder_state \in {"constructed", "accumulating", "built"}
    /\ counted => calls < MaxSetterCalls
    /\ builder' = b
    /\ builder_state' = "accumulating"
    /\ calls' = IF counted THEN calls + 1 ELSE calls
    /\ UNCHANGED <<graphVars, physVars, frameVars, built, ndebug, hostVars, unitVars>>

add_shader == Setter([builder EXCEPT !.m_shader_stages = Append(@, "shader")], TRUE)
set_vertex_input_bindings == Setter([builder EXCEPT !.m_vertex_input_binding_descriptions = <<"binding">>], FALSE)
set_vertex_input_attributes == Setter([builder EXCEPT !.m_vertex_input_attribute_descriptions = <<"attribute">>], FALSE)
set_primitive_topology == Setter([builder EXCEPT !.m_input_assembly_sci.topology = "LINE_LIST"], TRUE)
set_tesselation_control_point_count == Setter([builder EXCEPT !.m_tesselation_sci.patchControlPoints = 3], TRUE)
set_viewport == Setter([builder EXCEPT !.m_viewports = <<"viewport">>], FALSE)
set_scissor == Setter([builder EXCEPT !.m_scissors = <<"scissor">>], FALSE)
set_culling_mode == Setter([builder EXCEPT !.m_rasterization_sci.cullMode = "NONE"], TRUE)
set_depth_stencil ==
    Setter([builder EXCEPT !.m_depth_stencil_sci = [depthTestEnable |-> TRUE, depthWriteEnable |-> TRUE]], TRUE)
set_depth_attachment_format == Setter([builder EXCEPT !.m_depth_attachment_format = 1], TRUE)
set_stencil_attachment_format == Setter([builder EXCEPT !.m_stencil_attachment_format = 1], TRUE)
add_color_attachment_format == Setter([builder EXCEPT !.m_color_attachments = Append(@, 1)], TRUE)
set_multisampling == Setter([builder EXCEPT !.m_multisample_sci.rasterizationSamples = 4], TRUE)
set_color_blend == Setter([builder EXCEPT !.m_color_blend_sci = [attachmentCount |-> 1]], TRUE)
set_dynamic_states == Setter([builder EXCEPT !.m_dynamic_states = <<"dynamic_state">>], TRUE)
set_pipeline_layout == Setter([builder EXCEPT !.m_pipeline_layout = 1], FALSE)
add_color_blend_attachment == Setter([builder EXCEPT !.m_color_blend_attachment_states = Append(@, "blend")], TRUE)
add_push_constant_range == Setter([builder EXCEPT !.m_push_constant_ranges = Append(@, "range")], TRUE)
set_descriptor_set_layout == Setter([builder EXCEPT !.m_descriptor_set_layout = 1], TRUE)

BuilderConstructed ==
    /\ builder = Constructed
    /\ builder_state = "constructed"
    /\ built = <<>>
    /\ calls = 0

\* ------------------------------------------------------------ render pass
\* TextureUsage; "BUFFER" stands for a written resource that is no TextureResource
TextureUsages == {"BACK_BUFFER", "DEPTH_STENCIL_BUFFER", "NORMAL"}
WriteKinds == TextureUsages \cup {"BUFFER"}

\* a GraphicsStage as build_render_pass sees it: the resources of m_writes with their
\* usage and format (the i-th resource has format i) and m_clears_screen
GraphicsStage(kinds, clears) ==
    [m_writes |-> [i \in DOMAIN kinds |-> [usage |-> kinds[i], m_format |-> i]],
     m_clears_screen |-> clears]
NoStage == GraphicsStage(<<>>, FALSE)
NoRenderPass == [made |-> FALSE, attachments |-> <<>>, colour_refs |-> <<>>, depth_refs |-> <<>>]

\* the VkAttachmentDescription with every load-op DONT_CARE unless the stage clears
AttachmentNeverLoads(texture, clears) ==
    [format |-> texture.m_format,
     loadOp |-> IF clears THEN "CLEAR" ELSE "DONT_CARE",
     storeOp |-> "STORE",
     initialLayout |-> "UNDEFINED",
     finalLayout |-> CASE texture.usage = "BACK_BUFFER" -> "PRESENT_SRC_KHR"
                       [] texture.usage = "DEPTH_STENCIL_BUFFER" -> "DEPTH_STENCIL_ATTACHMENT_OPTIMAL"
                       [] OTHER -> "COLOR_ATTACHMENT_OPTIMAL"]

\* the VkAttachmentDescription build_render_pass makes for a texture the stage writes
Attachment(texture, clears) ==
    [format |-> texture.m_format,
     loadOp |-> IF clears THEN "CLEAR"
                ELSE IF texture.usage = "BACK_BUFFER" THEN "LOAD" ELSE "DONT_CARE",
     storeOp |-> "STORE",
     initialLayout |-> IF texture.usage = "BACK_BUFFER" /\ ~clears
                       THEN "PRESENT_SRC_KHR" ELSE "UNDEFINED",
     finalLayout |-> CASE texture.usage = "BACK_BUFFER" -> "PRESENT_SRC_KHR"
                       [] texture.usage = "DEPTH_STENCIL_BUFFER" -> "DEPTH_STENCIL_ATTACHMENT_OPTIMAL"
                       [] OTHER -> "COLOR_ATTACHMENT_OPTIMAL"]

\* a VkAttachmentReference: the index into pAttachments and the layout
AttachmentReference(attachment, layout) == [attachment |-> attachment, layout |-> layout]

\* the loop of build_render_pass over the first n resources of stage.m_writes; i of the
\* loop counts from 0, the sequences here from 1
RECURSIVE AttachmentsUpTo(_, _)
AttachmentsUpTo(stage, n) ==
    IF n = 0 THEN NoRenderPass
    ELSE LET before == AttachmentsUpTo(stage, n - 1)
             resource == stage.m_writes[n]
             i == n - 1
             attachment == Attachment(resource, stage.m_clears_screen)
         IN IF resource.usage \notin TextureUsages THEN before
            ELSE [made |-> FALSE,
                  attachments |-> Append(before.attachments, attachment),
                  colour_refs |->
                      IF resource.usage = "DEPTH_STENCIL_BUFFER" THEN before.colour_refs
                      ELSE Append(before.colour_refs,
                                  AttachmentReference(i, "COLOR_ATTACHMENT_OPTIMAL")),
                  depth_refs |->
                      IF resource.usage = "DEPTH_STENCIL_BUFFER"
                      THEN Append(before.depth_refs, AttachmentReference(i, attachment.finalLayout))
                      ELSE before.depth_refs]

\* the VkRenderPassCreateInfo of build_render_pass
RenderPassCreateInfo(stage) ==
    [AttachmentsUpTo(stage, Len(stage.m_writes)) EXCEPT !.made = TRUE]

\* RenderGraph::build_render_pass on the stage, vkCreateRenderPass returning VK_SUCCESS
build_render_pass ==
    /\ ~render_pass_ci.made
    /\ render_pass_ci' = RenderPassCreateInfo(attach_stage)
    /\ UNCHANGED <<graphVars, physVars, frameVars, builderVars, hostVars, attach_stage,
                   m_octree_vertices, m_octree_indices, old_vertices>>

\* ------------------------------------------------------------ octree mesh
\* the values an OctreeGpuVertex takes; two vertices are equal when position and
\* colour are
VertexValues == {"red_corner", "green_corner", "blue_corner"}

\* the lookup that answers the size of the map instead of the entry of the vertex
vertex_map_size(vertices, vertex) == Len(vertices)

\* vertex_map.at(vertex): a vertex is mapped to the number of vertices that were in
\* the map when it was put in, which is its place in m_octree_vertices, from 0
vertex_map_at(vertices, vertex) ==
    (CHOOSE i \in DOMAIN vertices : vertices[i] = vertex) - 1

\* the loop of generate_octree_indices over the first n of the old vertices
RECURSIVE IndexedUpTo(_, _)
IndexedUpTo(old, n) ==
    IF n = 0 THEN [vertices |-> <<>>, indices |-> <<>>]
    ELSE LET before == IndexedUpTo(old, n - 1)
             vertex == old[n]
             vertices == IF vertex \in Range(before.vertices) THEN before.vertices
                         ELSE Append(before.vertices, vertex)
         IN [vertices |-> vertices,
             indices |-> Append(before.indices, vertex_map_at(vertices, vertex))]

\* VulkanRenderer::generate_octree_indices
generate_octree_indices ==
    /\ old_vertices' = m_octree_vertices
    /\ m_octree_vertices' = IndexedUpTo(m_octree_vertices, Len(m_octree_vertices)).vertices
    /\ m_octree_indices' = IndexedUpTo(m_octree_vertices, Len(m_octree_vertices)).indices
    /\ UNCHANGED <<graphVars, physVars, frameVars, builderVars, hostVars, attach_stage, render_pass_ci>>

\* ------------------------------------------------------------ specification
EmptyGraph ==
    /\ m_reads = [s \in Stages |-> <<>>]
    /\ m_writes = [s \in Stages |-> <<>>]
    /\ m_buffer_bindings = [s \in Stages |-> {}]

NotCompiled ==
    /\ m_stage_stack = FreshGraph.m_stage_stack
    /\ m_physical = FreshGraph.m_physical
    /\ m_buffer = FreshGraph.m_buffer
    /\ m_framebuffers = FreshGraph.m_framebuffers
    /\ m_pipeline = FreshGraph.m_pipeline
    /\ gpu_log = FreshGraph.gpu_log
    /\ compiles = FreshGraph.compiles
    /\ thrown = NoException
    /\ vk_failed = NoFailure
    /\ compile_state = "declared"

NoFrame ==
    /\ m_data_upload_needed = [b \in Buffers |-> FALSE]
    /\ trace = <<>>
    /\ frames = 0
    /\ requests = [b \in Buffers |-> 0]
    /\ last_requests = [b \in Buffers |-> 0]

\* the pointers into the render graph the application holds
HostPointers == {"m_back_buffer", "m_index_buffer", "m_vertex_buffer", "m_imgui_overlay"}

\* a DescriptorSetLayout: how its construction went, its Vulkan handle (0 is
\* VK_NULL_HANDLE) and the debug name the device has for the handle
Layout(state, handle, debug_name) ==
    [state |-> state, m_descriptor_set_layout |-> handle, debug_name |-> debug_name]
NoLayout == Layout("none", 0, "")

\* the application before its constructor has set up the render graph
NoHost ==
    /\ host_state = "constructing"
    /\ m_window_resized = FALSE
    /\ m_render_graph = 0
    /\ host_refs = [p \in HostPointers |-> 0]
    /\ m_frame_finished_fence = FALSE
    /\ in_flight = FALSE
    /\ host_log = <<>>
    /\ host_frames = 0
    /\ resizes = 0
    /\ descriptor_set_layout = NoLayout

NoMesh ==
    /\ m_octree_vertices = <<>>
    /\ m_octree_indices = <<>>
    /\ old_vertices = <<>>

NoUnit ==
    /\ attach_stage = NoStage
    /\ render_pass_ci = NoRenderPass
    /\ NoMesh

WriteLists == UNION {[1..n -> WriteKinds] : n \in 0..MaxWrites}

InitRenderPass ==
    /\ m_stages = 0
    /\ EmptyGraph
    /\ NotCompiled
    /\ NoFrame
    /\ BuilderConstructed
    /\ ndebug = FALSE
    /\ NoHost
    /\ \E kinds \in WriteLists, clears \in BOOLEAN : attach_stage = GraphicsStage(kinds, clears)
    /\ render_pass_ci = NoRenderPass
    /\ NoMesh

NextRenderPass == build_render_pass

SpecRenderPass == InitRenderPass /\ [][NextRenderPass]_vars

\* the octree mesh as it is loaded: a vertex per corner of every triangle, none indexed
InitOctree ==
    /\ m_stages = 0
    /\ EmptyGraph
    /\ NotCompiled
    /\ NoFrame
    /\ BuilderConstructed
    /\ ndebug = FALSE
    /\ NoHost
    /\ attach_stage = NoStage
    /\ render_pass_ci = NoRenderPass
    /\ m_octree_vertices \in UNION {[1..n -> VertexValues] : n \in 0..MaxVertices}
    /\ m_octree_indices = <<>>
    /\ old_vertices = <<>>

NextOctree == generate_octree_indices

SpecOctree == InitOctree /\ [][NextOctree]_vars

Init ==
    /\ m_stages = 0
    /\ EmptyGraph
    /\ NotCompiled
    /\ NoFrame
    /\ BuilderConstructed
    /\ ndebug = FALSE
    /\ NoHost
    /\ NoUnit

Next ==
    \/ AddStage
    \/ \E stage \in Stages, resource \in WriteTargets : WritesTo(stage, resource)
    \/ \E stage \in Stages, resource \in Resources : ReadsFrom(stage, resource)
    \/ \E stage \in Stages, buffer \in VertexBuffers, binding \in Bindings : BindBuffer(stage, buffer, binding)
    \/ \E target \in Targets : Compile(target)

Spec == Init /\ [][Next]_vars

\* the declarations, compile() and further compile() calls on the same graph
NextRecompile ==
    \/ AddStage
    \/ \E stage \in Stages, resource \in WriteTargets : WritesTo(stage, resource)
    \/ \E stage \in Stages, resource \in Resources : ReadsFrom(stage, resource)
    \/ \E stage \in Stages, buffer \in VertexBuffers, binding \in Bindings : BindBuffer(stage, buffer, binding)
    \/ \E target \in Targets : Compile(target)
    \/ \E target \in Targets : Recompile(target)

SpecRecompile == Init /\ [][NextRecompile]_vars

\* ------------------------------------------------------------ frame loop
Cmd(c, stage, bufs) == [cmd |-> c, stage |-> stage, bufs |-> bufs]

\* BufferResource::upload_data: stages the data and marks the resource
UploadData(buffer) ==
    /\ compile_state \in {"declared", "compiled"}
    /\ thrown.type # "null_dereference"
    /\ m_data_upload_needed' = [m_data_upload_needed EXCEPT ![buffer] = TRUE]
    /\ requests' = [requests EXCEPT ![buffer] = IF @ = 0 THEN 1 ELSE 2]
    /\ UNCHANGED <<graphVars, physVars, trace, frames, last_requests, builderVars, unitVars, hostVars>>

\* update_dynamic_buffers without the test of m_data_upload_needed
RECURSIVE UpdateBuffersAlways(_)
UpdateBuffersAlways(n) ==
    IF n = 0
    THEN [buffer |-> m_buffer, needed |-> m_data_upload_needed, ops |-> <<>>]
    ELSE LET before == UpdateBuffersAlways(n - 1)
             b == m_buffer_resources[n]
         IN [buffer |-> [before.buffer EXCEPT ![b] = m_buffer[b] + 1],
             needed |-> [before.needed EXCEPT ![b] = FALSE],
             ops |-> before.ops
                     \o (IF m_buffer[b] # 0
                         THEN <<Cmd("destroy_buffer", 0, <<b>>)>> ELSE <<>>)
                     \o <<Cmd("create_buffer", 0, <<b>>)>>]

\* update_dynamic_buffers that keeps a buffer that exists and only clears the flag
RECURSIVE UpdateBuffersInPlace(_)
UpdateBuffersInPlace(n) ==
    IF n = 0
    THEN [buffer |-> m_buffer, needed |-> m_data_upload_needed, ops |-> <<>>]
    ELSE LET before == UpdateBuffersInPlace(n - 1)
             b == m_buffer_resources[n]
         IN IF m_data_upload_needed[b]
            THEN [buffer |-> [before.buffer EXCEPT ![b] = IF m_buffer[b] # 0 THEN m_buffer[b] ELSE 1],
                  needed |-> [before.needed EXCEPT ![b] = FALSE],
                  ops |-> before.ops
                          \o (IF m_buffer[b] # 0 THEN <<>> ELSE <<Cmd("create_buffer", 0, <<b>>)>>)]
            ELSE before

\* update_dynamic_buffers that creates the new buffer while the old one still exists
RECURSIVE UpdateBuffersCreateFirst(_)
UpdateBuffersCreateFirst(n) ==
    IF n = 0
    THEN [buffer |-> m_buffer, needed |-> m_data_upload_needed, ops |-> <<>>]
    ELSE LET before == UpdateBuffersCreateFirst(n - 1)
             b == m_buffer_resources[n]
         IN IF m_data_upload_needed[b]
            THEN [buffer |-> [before.buffer EXCEPT ![b] = m_buffer[b] + 1],
                  needed |-> [before.needed EXCEPT ![b] = FALSE],
                  ops |-> before.ops
                          \o <<Cmd("create_buffer", 0, <<b>>)>>
                          \o (IF m_buffer[b] # 0
                              THEN <<Cmd("destroy_buffer", 0, <<b>>)>> ELSE <<>>)]
            ELSE before

\* RenderGraph::update_dynamic_buffers over the first n buffer resources: the
\* buffers and flags it leaves and the buffer operations it performs
RECURSIVE UpdateBuffersUpTo(_)
UpdateBuffersUpTo(n) ==
    IF n = 0
    THEN [buffer |-> m_buffer, needed |-> m_data_upload_needed, ops |-> <<>>]
    ELSE LET before == UpdateBuffersUpTo(n - 1)
             b == m_buffer_resources[n]
         IN IF m_data_upload_needed[b]
            THEN [buffer |-> [before.buffer EXCEPT ![b] = m_buffer[b] + 1],
                  needed |-> [before.needed EXCEPT ![b] = FALSE],
                  ops |-> before.ops
                          \o (IF m_buffer[b] # 0
                              THEN <<Cmd("destroy_buffer", 0, <<b>>)>> ELSE <<>>)
                          \o <<Cmd("create_buffer", 0, <<b>>)>>]
            ELSE before

update_dynamic_buffers == UpdateBuffersUpTo(Len(m_buffer_resources))

\* the loop over stage->m_reads in record_command_buffer: the buffers of one usage
\* that are read and have a buffer behind them
RECURSIVE ReadBuffers(_, _, _)
ReadBuffers(reads, usage, buffer) ==
    IF reads = <<>> THEN <<>>
    ELSE (IF /\ Head(reads) \in Buffers
             /\ buffer[Head(reads)] # 0
             /\ m_usage[Head(reads)] = usage
          THEN <<Head(reads)>> ELSE <<>>)
         \o ReadBuffers(Tail(reads), usage, buffer)

RECURSIVE BindIndexBuffers(_, _)
BindIndexBuffers(stage, bufs) ==
    IF bufs = <<>> THEN <<>>
    ELSE <<Cmd("bind_index_buffer", stage, <<Head(bufs)>>)>> \o BindIndexBuffers(stage, Tail(bufs))

\* record_command_buffer with the pipeline bound after the record callback has run
record_binds_late(stage, image_index, buffer) ==
    LET vertex_buffers == ReadBuffers(m_reads[stage], "VERTEX_BUFFER", buffer)
    IN <<Cmd("begin_render_pass", stage, <<>>)>>
       \o BindIndexBuffers(stage, ReadBuffers(m_reads[stage], "INDEX_BUFFER", buffer))
       \o (IF vertex_buffers # <<>>
           THEN <<Cmd("bind_vertex_buffers", stage, vertex_buffers)>> ELSE <<>>)
       \o <<Cmd("on_record", stage, <<>>),
            Cmd("bind_pipeline", stage, <<>>),
            Cmd("end_render_pass", stage, <<>>),
            Cmd("full_barrier", stage, <<>>)>>

\* record_command_buffer that ends the render pass and records no barrier
record_without_barrier(stage, image_index, buffer) ==
    LET vertex_buffers == ReadBuffers(m_reads[stage], "VERTEX_BUFFER", buffer)
    IN <<Cmd("begin_render_pass", stage, <<>>)>>
       \o BindIndexBuffers(stage, ReadBuffers(m_reads[stage], "INDEX_BUFFER", buffer))
       \o (IF vertex_buffers # <<>>
           THEN <<Cmd("bind_vertex_buffers", stage, vertex_buffers)>> ELSE <<>>)
       \o <<Cmd("bind_pipeline", stage, <<>>),
            Cmd("on_record", stage, <<>>),
            Cmd("end_render_pass", stage, <<>>)>>

\* RenderGraph::record_command_buffer
record_command_buffer(stage, image_index, buffer) ==
    LET vertex_buffers == ReadBuffers(m_reads[stage], "VERTEX_BUFFER", buffer)
    IN <<Cmd("begin_render_pass", stage, <<>>)>>
       \o BindIndexBuffers(stage, ReadBuffers(m_reads[stage], "INDEX_BUFFER", buffer))
       \o (IF vertex_buffers # <<>>
           THEN <<Cmd("bind_vertex_buffers", stage, vertex_buffers)>> ELSE <<>>)
       \o <<Cmd("bind_pipeline", stage, <<>>),
            Cmd("on_record", stage, <<>>),
            Cmd("end_render_pass", stage, <<>>),
            Cmd("full_barrier", stage, <<>>)>>

RECURSIVE RecordStages(_, _, _)
RecordStages(stack, image_index, buffer) ==
    IF stack = <<>> THEN <<>>
    ELSE record_command_buffer(Head(stack), image_index, buffer)
         \o RecordStages(Tail(stack), image_index, buffer)

\* the reads of a stage whose resource has no physical resource: buffer_resource->
\* m_physical->as<PhysicalBuffer>() of record_command_buffer dereferences a null pointer
NullReads(stage) == {i \in DOMAIN m_reads[stage] : m_reads[stage][i] \in Unregistered}

\* record_command_buffer when the dereference ends the process: the commands up to it
record_until_null(stage, image_index, buffer) ==
    LET first == CHOOSE i \in NullReads(stage) : \A j \in NullReads(stage) : i <= j
        before == SubSeq(m_reads[stage], 1, first - 1)
    IN <<Cmd("begin_render_pass", stage, <<>>)>>
       \o BindIndexBuffers(stage, ReadBuffers(before, "INDEX_BUFFER", buffer))
       \o <<Cmd("null_dereference", stage, <<m_reads[stage][first]>>)>>

RECURSIVE RecordStagesUntilNull(_, _, _)
RecordStagesUntilNull(stack, image_index, buffer) ==
    IF stack = <<>> THEN <<>>
    ELSE IF NullReads(Head(stack)) # {}
         THEN record_until_null(Head(stack), image_index, buffer)
         ELSE record_command_buffer(Head(stack), image_index, buffer)
              \o RecordStagesUntilNull(Tail(stack), image_index, buffer)

\* what the dereference of a null m_physical can do: end the process, or go on with
\* the resource passed over
NullOutcomes ==
    IF \E i \in DOMAIN m_stage_stack : NullReads(m_stage_stack[i]) # {}
    THEN {"ends", "passed_over"} ELSE {"none"}

\* the body of RenderGraph::render; m_framebuffers.at(image_index) of
\* record_command_buffer finds the framebuffer of the image
Rendered(image_index) ==
    /\ compile_state = "compiled"
    /\ thrown.type # "null_dereference"
    /\ frames < MaxFrames
    /\ \A i \in DOMAIN m_stage_stack : image_index < Len(m_framebuffers[m_stage_stack[i]])
    /\ \E outcome \in NullOutcomes :
       LET updated == update_dynamic_buffers
       IN /\ m_buffer' = updated.buffer
          /\ m_data_upload_needed' = updated.needed
          /\ trace' = updated.ops
                       \o (IF outcome = "ends"
                           THEN RecordStagesUntilNull(m_stage_stack, image_index, updated.buffer)
                           ELSE RecordStages(m_stage_stack, image_index, updated.buffer))
          /\ thrown' = IF outcome = "ends"
                       THEN Exception("null_dereference", "", 0, "VK_SUCCESS") ELSE thrown
    /\ frames' = frames + 1
    /\ last_requests' = requests
    /\ requests' = [b \in Buffers |-> 0]
    /\ UNCHANGED <<graphVars, m_stage_stack, m_physical, m_framebuffers, m_pipeline, compiles,
                   compile_state, gpu_log, vk_failed, builderVars, unitVars>>

\* RenderGraph::render
Render(image_index) == Rendered(image_index) /\ UNCHANGED hostVars

\* the stages of the graphs the frame loop is run on: a stage that draws indexed
\* geometry to the back buffer, one that renders a texture, one that reads that
\* texture and writes the back buffer, one that writes nothing; every stage binds
\* the vertex buffers it reads
StageShapes ==
    {[writes |-> <<"back_buffer">>,
      reads |-> <<"vertex_buffer", "index_buffer", "vertex_buffer", "index_buffer">>],
     [writes |-> <<"texture">>, reads |-> <<"index_buffer", "vertex_buffer">>],
     [writes |-> <<"back_buffer">>, reads |-> <<"texture">>],
     [writes |-> <<>>, reads |-> <<>>]}

\* a graph of stages of the shapes, declared and not compiled
InitShapes(shapes) ==
    /\ m_stages \in 1..NumStages
    /\ \E shape \in [Stages -> shapes] :
           /\ m_writes = [s \in Stages |-> IF s <= m_stages THEN shape[s].writes ELSE <<>>]
           /\ m_reads = [s \in Stages |-> IF s <= m_stages THEN shape[s].reads ELSE <<>>]
    /\ m_buffer_bindings =
           [s \in Stages |->
               {<<b, 0>> : b \in Range(m_reads[s]) \cap (VertexBuffers \cup Unregistered)}]
    /\ NotCompiled
    /\ NoFrame
    /\ BuilderConstructed
    /\ ndebug = FALSE
    /\ NoHost
    /\ NoUnit

InitFrame == InitShapes(StageShapes)

\* stages that read a vertex buffer the graph has not registered, and bind it
StrayShapes ==
    {[writes |-> <<"back_buffer">>,
      reads |-> <<"index_buffer", "stray_buffer", "vertex_buffer">>],
     [writes |-> <<"texture">>, reads |-> <<"vertex_buffer">>],
     [writes |-> <<"back_buffer">>, reads |-> <<"texture", "stray_buffer">>]}

InitStray == InitShapes(StrayShapes)

NextFrame ==
    \/ \E target \in Targets : Compile(target)
    \/ \E buffer \in Buffers : UploadData(buffer)
    \/ \E image_index \in 0..(NumSwapImages - 1) : Render(image_index)

SpecFrame == InitFrame /\ [][NextFrame]_vars

\* the frame loop on graphs with an unregistered resource
SpecStray == InitStray /\ [][NextFrame]_vars

InitBuilder ==
    /\ m_stages = 0
    /\ EmptyGraph
    /\ NotCompiled
    /\ NoFrame
    /\ BuilderConstructed
    /\ ndebug \in BOOLEAN
    /\ NoHost
    /\ NoUnit

NextBuilder ==
    \/ add_shader
    \/ set_vertex_input_bindings
    \/ set_vertex_input_attributes
    \/ set_primitive_topology
    \/ set_tesselation_control_point_count
    \/ set_viewport
    \/ set_scissor
    \/ set_culling_mode
    \/ set_depth_stencil
    \/ set_depth_attachment_format
    \/ set_stencil_attachment_format
    \/ add_color_attachment_format
    \/ set_multisampling
    \/ set_color_blend
    \/ set_dynamic_states
    \/ set_pipeline_layout
    \/ add_color_blend_attachment
    \/ add_push_constant_range
    \/ set_descriptor_set_layout
    \/ \E name \in {"", "graphics pipeline"} : Build(name)
    \/ MoveConstruct

SpecBuilder == InitBuilder /\ [][NextBuilder]_vars

\* ------------------------------------------------------------ application
\* one step of the application: what it does, whether the GPU still works on a
\* submitted frame when it does it, the semaphore it waits on and the one it hands on
HostStep(op, busy, waits, signals) ==
    [op |-> op, gpu_busy |-> busy, waits |-> waits, signals |-> signals]

\* recreate_swapchain that does not wait for the device
recreate_without_wait(busy) ==
    <<HostStep("wait_for_focus", busy, "", "")>>
    \o (IF m_render_graph # 0 THEN <<HostStep("destroy_render_graph", busy, "", "")>> ELSE <<>>)
    \o <<HostStep("recreate_swapchain_images", busy, "", ""),
         HostStep("make_render_graph", busy, "", ""),
         HostStep("setup_render_graph", busy, "", ""),
         HostStep("destroy_fence", busy, "", ""),
         HostStep("destroy_semaphore", busy, "", ""),
         HostStep("make_fence", busy, "", ""),
         HostStep("make_semaphore", busy, "", ""),
         HostStep("destroy_imgui_overlay", busy, "", ""),
         HostStep("make_imgui_overlay", busy, "", ""),
         HostStep("compile", busy, "", "")>>

\* the steps of VulkanRenderer::recreate_swapchain; vkDeviceWaitIdle returns when the
\* GPU has finished its work
recreate_swapchain_steps(busy) ==
    <<HostStep("wait_for_focus", busy, "", ""),
      HostStep("device_wait_idle", busy, "", "")>>
    \o (IF m_render_graph # 0 THEN <<HostStep("destroy_render_graph", FALSE, "", "")>> ELSE <<>>)
    \o <<HostStep("recreate_swapchain_images", FALSE, "", ""),
         HostStep("make_render_graph", FALSE, "", ""),
         HostStep("setup_render_graph", FALSE, "", ""),
         HostStep("destroy_fence", FALSE, "", ""),
         HostStep("destroy_semaphore", FALSE, "", ""),
         HostStep("make_fence", FALSE, "", ""),
         HostStep("make_semaphore", FALSE, "", ""),
         HostStep("destroy_imgui_overlay", FALSE, "", ""),
         HostStep("make_imgui_overlay", FALSE, "", ""),
         HostStep("compile", FALSE, "", "")>>

\* recreate_swapchain that compiles the graph it has again
GraphKept == CurrentGraph

\* m_render_graph = std::make_unique<RenderGraph>(...)
GraphOfRecreate == FreshGraph

\* recreate_swapchain that makes the fence unsignaled
FenceMadeUnsignaled == FALSE

\* std::make_unique<wrapper::Fence>(*m_device, "Farme finished fence", true): the
\* fence is made in the signaled state
FenceMade == TRUE

\* VulkanRenderer::recreate_swapchain: a new graph, setup_render_graph declares the
\* resources and stages again and uploads the buffers, compile(m_back_buffer)
recreate_swapchain ==
    \E fail \in RenderPassFailures :
    LET result == CompileResult(GraphOfRecreate, CompileTarget, fail)
    IN /\ host_log' = recreate_swapchain_steps(in_flight)
       /\ m_render_graph' = m_render_graph + 1
       /\ host_refs' = [p \in HostPointers |-> m_render_graph + 1]
       /\ Compiled(result)
       /\ m_data_upload_needed' = [b \in Buffers |-> TRUE]
       /\ requests' = [b \in Buffers |-> 1]
       /\ last_requests' = [b \in Buffers |-> 0]
       /\ trace' = <<>>
       /\ m_frame_finished_fence' = FenceMade
       /\ in_flight' = FALSE
       /\ host_state' = IF result.compile_state = "compiled" THEN "running" ELSE "terminated"
       /\ UNCHANGED <<graphVars, frames, builderVars, unitVars>>

\* DescriptorSetLayout::DescriptorSetLayout: the object it leaves, the exception it
\* throws and the Vulkan call that failed
LayoutConstructed(name, result) ==
    IF name = ""
    THEN [layout |-> Layout("failed", 0, ""),
          thrown |-> Exception("std::runtime_error", "", 0, "VK_SUCCESS"),
          failed |-> NoFailure]
    ELSE IF result # "VK_SUCCESS"
         THEN [layout |-> Layout("failed", 0, ""),
               thrown |-> VulkanException(VkCall("vkCreateDescriptorSetLayout", 0, result)),
               failed |-> VkCall("vkCreateDescriptorSetLayout", 0, result)]
         ELSE [layout |-> Layout("made", 1, name), thrown |-> NoException, failed |-> NoFailure]

\* the application makes the descriptor set layout of its stage before it sets up
\* the render graph; an exception ends the application
MakeDescriptorSetLayout(name, result) ==
    /\ host_state = "constructing"
    /\ descriptor_set_layout.state = "none"
    /\ LET made == LayoutConstructed(name, result)
       IN /\ descriptor_set_layout' = made.layout
          /\ thrown' = made.thrown
          /\ vk_failed' = made.failed
          /\ host_state' = IF made.thrown = NoException THEN "constructing" ELSE "terminated"
    /\ UNCHANGED <<graphVars, m_stage_stack, m_physical, m_buffer, m_framebuffers, m_pipeline, compiles,
                   compile_state, gpu_log, frameVars, builderVars, unitVars, m_window_resized,
                   m_render_graph, host_refs, m_frame_finished_fence, in_flight, host_log,
                   host_frames, resizes>>

\* the constructor of the application ends with recreate_swapchain()
Construct ==
    /\ host_state = "constructing"
    /\ descriptor_set_layout.state = "made"
    /\ recreate_swapchain
    /\ UNCHANGED <<m_window_resized, host_frames, resizes, descriptor_set_layout>>

\* the framebuffer resize callback
ResizeEvent ==
    /\ host_state = "running"
    /\ resizes < MaxResizes
    /\ m_window_resized' = TRUE
    /\ resizes' = resizes + 1
    /\ UNCHANGED <<graphVars, physVars, frameVars, builderVars, unitVars, host_state, m_render_graph,
                   host_refs, m_frame_finished_fence, in_flight, host_log, host_frames,
                   descriptor_set_layout>>

\* render_frame that acquires the image before it waits for the fence
render_frame_acquires_first ==
    <<HostStep("acquire_next_image", FALSE, "", "image_available"),
      HostStep("fence_block", FALSE, "", ""),
      HostStep("fence_reset", FALSE, "", ""),
      HostStep("render", FALSE, "image_available", "wait_semaphore"),
      HostStep("present", FALSE, "wait_semaphore", "")>>

\* the steps of VulkanRenderer::render_frame when no resize is flagged
render_frame_steps ==
    <<HostStep("fence_block", FALSE, "", ""),
      HostStep("fence_reset", FALSE, "", ""),
      HostStep("acquire_next_image", FALSE, "", "image_available"),
      HostStep("render", FALSE, "image_available", "wait_semaphore"),
      HostStep("present", FALSE, "wait_semaphore", "")>>

\* render_frame that goes on without the wait for the fence
FenceNotAwaited == TRUE

\* m_frame_finished_fence->block() returns
FenceBlockReturns == m_frame_finished_fence

\* VulkanRenderer::render_frame; m_frame_finished_fence->block() returns when the
\* fence is signaled
render_frame(image_index) ==
    /\ host_state = "running"
    /\ host_frames' = host_frames + 1
    /\ IF m_window_resized
       THEN /\ m_window_resized' = FALSE
            /\ recreate_swapchain
            /\ UNCHANGED <<resizes, descriptor_set_layout>>
       ELSE /\ FenceBlockReturns
            /\ Rendered(image_index)
            /\ host_log' = render_frame_steps
            /\ m_frame_finished_fence' = FALSE
            /\ in_flight' = TRUE
            /\ UNCHANGED <<host_state, m_window_resized, m_render_graph, host_refs, resizes,
                           descriptor_set_layout>>

\* the GPU finishes the submitted frame and signals the fence
GpuFinishesFrame ==
    /\ in_flight
    /\ in_flight' = FALSE
    /\ m_frame_finished_fence' = TRUE
    /\ UNCHANGED <<graphVars, physVars, frameVars, builderVars, unitVars, host_state, m_window_resized,
                   m_render_graph, host_refs, host_log, host_frames, resizes,
                   descriptor_set_layout>>

NextHost ==
    \/ \E name \in {"", "octree"}, result \in {"VK_SUCCESS"} \cup VkErrors :
           MakeDescriptorSetLayout(name, result)
    \/ Construct
    \/ ResizeEvent
    \/ \E image_index \in 0..(NumSwapImages - 1) : render_frame(image_index)
    \/ GpuFinishesFrame

SpecHost == InitFrame /\ [][NextHost]_vars

\* the application with the uploads its update callbacks make between frames
NextHostUpload ==
    \/ \E name \in {"", "octree"}, result \in {"VK_SUCCESS"} \cup VkErrors :
           MakeDescriptorSetLayout(name, result)
    \/ Construct
    \/ ResizeEvent
    \/ \E image_index \in 0..(NumSwapImages - 1) : render_frame(image_index)
    \/ GpuFinishesFrame
    \/ \E buffer \in Buffers : host_state = "running" /\ UploadData(buffer)

\* the stages the application declares: the main stage of setup_render_graph and the
\* stage of the ImGui overlay write the back buffer and read the index and the vertex
\* buffer
HostShapes == {[writes |-> <<"back_buffer">>, reads |-> <<"index_buffer", "vertex_buffer">>]}

InitHost == InitShapes(HostShapes)

SpecHostUpload == InitHost /\ [][NextHostUpload]_vars

\* the GPU completes the work submitted to it
SpecHostFair == SpecHost /\ WF_vars(GpuFinishesFrame)

\* ------------------------------------------------------------ properties
Registered == 1..m_stages

\* the stages that write a resource the stage reads
Producers(stage) ==
    {w \in Registered :
        \E i \in DOMAIN m_reads[stage], j \in DOMAIN m_writes[w] : m_reads[stage][i] = m_writes[w][j]}

RECURSIVE Closure(_, _)
Closure(S, n) == IF n = 0 THEN S ELSE Closure(S \cup UNION {Producers(s) : s \in S}, n - 1)

\* the stages a stage depends on, directly or not
DependsOn(stage) == Closure(Producers(stage), NumStages)

Acyclic == \A s \in Registered : s \notin DependsOn(s)

TargetWriters == {w \in Registered : \E j \in DOMAIN m_writes[w] : m_writes[w][j] = CompileTarget}

\* the stages the target depends on
ReachableFromTarget == Closure(TargetWriters, NumStages)

\* C1: in an acyclic graph compile() returns, and every stage in the execution order
\* is preceded there by every stage that writes a resource it reads.
TopologicalValidity ==
    (compile_state # "declared" /\ Acyclic) =>
        /\ compile_state # "stack_overflow"
        /\ \A i \in DOMAIN m_stage_stack :
               \A w \in Producers(m_stage_stack[i]) :
                   \E j \in 1..(i - 1) : m_stage_stack[j] = w

TopologicalValidityWitness ==
    /\ compile_state = "compiled"
    /\ Acyclic
    /\ Len(m_stage_stack) >= 2
    /\ \E i \in DOMAIN m_stage_stack : Producers(m_stage_stack[i]) # {}

\* two stages, each reading a resource that only the other writes, one of them needed
\* for the target
TwoStageCycle ==
    \E a, b \in Registered :
        /\ a # b
        /\ \E i \in DOMAIN m_reads[a] : Range(writers(m_reads[a][i])) = {b}
        /\ \E i \in DOMAIN m_reads[b] : Range(writers(m_reads[b][i])) = {a}
        /\ {a, b} \cap ReachableFromTarget # {}

\* C2: compiling a graph with such a cycle ends with a configuration error.
CycleRejection ==
    (compile_state # "declared" /\ TwoStageCycle) => compile_state = "configuration_error"

\* C9: compile() does not complete while a registered stage is not needed for the
\* target, nor while no stage writes the target.
UnreachablePassRejected ==
    (TargetWriters = {} \/ \E s \in Registered : s \notin ReachableFromTarget) =>
        compile_state # "compiled"

\* C10: when a stage of the execution order reads a buffer that is no index buffer and
\* has no binding, compile() fails, and it has created no GPU object by then.
MissingBindingFailsBeforeGpu ==
    (compile_state # "declared" /\ \E i \in DOMAIN m_stage_stack : MissingBinding(m_stage_stack[i])) =>
        /\ compile_state = "out_of_range"
        /\ gpu_log = <<>>

\* C3: after build() every member of the builder is as the constructor left it.
BuilderResetAfterBuild ==
    builder_state = "built" => builder = Constructed

\* operations on the buffer of a resource in a render() call
Creates(ops, b) == Len(SelectSeq(ops, LAMBDA c : c.cmd = "create_buffer" /\ c.bufs = <<b>>))
Destroys(ops, b) == Len(SelectSeq(ops, LAMBDA c : c.cmd = "destroy_buffer" /\ c.bufs = <<b>>))

\* C4: render() leaves the buffer of a resource that is not marked alone, and after
\* exactly one upload_data since the last render() it makes exactly one new buffer.
DirtyResourceIdempotence ==
    [][frames' = frames + 1 =>
          \A b \in Buffers :
              /\ ~m_data_upload_needed[b] =>
                     /\ m_buffer'[b] = m_buffer[b]
                     /\ Creates(trace', b) = 0
                     /\ Destroys(trace', b) = 0
              /\ requests[b] = 1 =>
                     /\ Creates(trace', b) = 1
                     /\ m_buffer'[b] # m_buffer[b]]_vars

DirtyResourceIdempotenceWitness ==
    /\ frames = 2
    /\ last_requests["vertex_buffer"] = 1
    /\ Creates(trace, "vertex_buffer") = 1
    /\ last_requests["index_buffer"] = 0
    /\ m_buffer["index_buffer"] # 0
    /\ Creates(trace, "index_buffer") = 0

\* C5: the flag of a resource is cleared only in a step that makes one new buffer for
\* it, a render() call makes at most one buffer per resource, and no resource is
\* marked when render() returns.
DirtyFlagClearedByUpload ==
    [][/\ \A b \in Buffers :
              (m_data_upload_needed[b] /\ ~m_data_upload_needed'[b]) =>
                  /\ frames' = frames + 1
                  /\ m_buffer'[b] \notin {0, m_buffer[b]}
                  /\ Creates(trace', b) = 1
       /\ frames' = frames + 1 =>
              \A b \in Buffers : Creates(trace', b) <= 1 /\ ~m_data_upload_needed'[b]]_vars

DirtyFlagClearedByUploadWitness ==
    /\ frames = 2
    /\ last_requests["index_buffer"] = 2
    /\ Creates(trace, "index_buffer") = 1
    /\ Destroys(trace, "index_buffer") = 1
    /\ ~m_data_upload_needed["index_buffer"]

\* the commands of the passes in the last render() call
PassCommands == SelectSeq(trace, LAMBDA c : c.cmd \notin {"create_buffer", "destroy_buffer"})

\* position of the k-th full barrier
RECURSIVE BarrierAt(_, _)
BarrierAt(cmds, k) ==
    IF k = 0 THEN 0
    ELSE LET from == BarrierAt(cmds, k - 1)
             later == {i \in (from + 1)..Len(cmds) : cmds[i].cmd = "full_barrier"}
         IN IF later = {} THEN Len(cmds) + 1
            ELSE CHOOSE i \in later : \A j \in later : i <= j

BoundBy(cmds, kind, b) ==
    LET binds == SelectSeq(cmds, LAMBDA c : c.cmd = kind)
        count[i \in 0..Len(binds)] == IF i = 0 THEN 0 ELSE count[i - 1] + Occurrences(binds[i].bufs, b)
    IN count[Len(binds)]

ReadWithBuffer(stage, b, usage) ==
    IF m_usage[b] = usage /\ m_buffer[b] # 0 THEN Occurrences(m_reads[stage], b) ELSE 0

PassWellFormed(seg, stage) ==
    LET n == Len(seg)
        binds == SubSeq(seg, 2, n - 4)
    IN /\ n >= 5
       /\ seg[1].cmd = "begin_render_pass"
       /\ \A i \in DOMAIN binds : binds[i].cmd \in {"bind_index_buffer", "bind_vertex_buffers"}
       /\ seg[n - 3].cmd = "bind_pipeline"
       /\ seg[n - 2].cmd = "on_record"
       /\ seg[n - 1].cmd = "end_render_pass"
       /\ seg[n].cmd = "full_barrier"
       /\ \A i \in DOMAIN seg : seg[i].stage = stage
       /\ \A i \in DOMAIN binds : binds[i].cmd = "bind_index_buffer" => Len(binds[i].bufs) = 1
       /\ Len(SelectSeq(binds, LAMBDA c : c.cmd = "bind_vertex_buffers")) <= 1
       /\ \A i \in DOMAIN binds : binds[i].bufs # <<>>
       /\ \A b \in Buffers :
              /\ BoundBy(binds, "bind_index_buffer", b) = ReadWithBuffer(stage, b, "INDEX_BUFFER")
              /\ BoundBy(binds, "bind_vertex_buffers", b) = ReadWithBuffer(stage, b, "VERTEX_BUFFER")

\* C6: the commands of a render() call are, pass by pass in the execution order: begin
\* render pass, the index buffers the pass reads one per call, at most one call for all
\* its vertex buffers, bind pipeline, the record callback, end render pass, full barrier.
PassCommandOrder ==
    frames > 0 =>
        LET cmds == PassCommands
        IN /\ BarrierAt(cmds, Len(m_stage_stack)) = Len(cmds)
           /\ \A k \in DOMAIN m_stage_stack :
                  PassWellFormed(SubSeq(cmds, BarrierAt(cmds, k - 1) + 1, BarrierAt(cmds, k)),
                                 m_stage_stack[k])

PassCommandOrderWitness ==
    /\ frames > 0
    /\ Len(m_stage_stack) = 2
    /\ \E i \in DOMAIN trace :
           /\ trace[i].cmd = "bind_vertex_buffers"
           /\ trace[i].stage = m_stage_stack[2]
           /\ Len(trace[i].bufs) = 2
    /\ Len(SelectSeq(trace, LAMBDA c : c.cmd = "bind_index_buffer" /\ c.stage = m_stage_stack[2])) = 2

\* C7: every registered stage has its update callback run exactly once in a render()
\* call, before the first command of a pass.
UpdateCallbackOncePerFrame ==
    frames > 0 =>
        \A s \in Registered :
            /\ Len(SelectSeq(trace, LAMBDA c : c.cmd = "on_update" /\ c.stage = s)) = 1
            /\ \A i, j \in DOMAIN trace :
                   (trace[i].cmd = "on_update" /\ trace[j].cmd = "begin_render_pass") => i < j

\* C8: every registered stage has its record callback run in every render() call.
EveryDeclaredPassRuns ==
    frames > 0 =>
        \A s \in Registered : \E i \in DOMAIN trace : trace[i].cmd = "on_record" /\ trace[i].stage = s

\* C11: build() creates a pipeline only when the name is not empty and the vertex
\* bindings, vertex attributes, viewports, scissors and pipeline layout are set.
BuildValidatesMandatoryState ==
    [][Len(built') > Len(built) => BuildAsserts(builder, built'[Len(built')])]_vars

\* C12: after compile() every registered resource has a physical resource of its kind
\* and no two resources have the same one.
SinglePhysicalPerResource ==
    compile_state = "compiled" =>
        /\ \A r \in Resources : m_physical[r].id # 0 /\ m_physical[r].kind = PhysicalKind(r)
        /\ \A r1, r2 \in Resources : r1 # r2 => m_physical[r1].id # m_physical[r2].id

SinglePhysicalPerResourceWitness ==
    /\ compile_state = "compiled"
    /\ m_stage_stack # <<>>
    /\ m_physical["index_buffer"].kind = "PhysicalBuffer"
    /\ m_physical["vertex_buffer"].kind = "PhysicalBuffer"
    /\ m_physical["texture"].kind = "PhysicalImage"
    /\ m_physical["back_buffer"].kind = "PhysicalBackBuffer"

\* one stage that writes the back buffer and reads no texture
SinglePass ==
    /\ m_stages = 1
    /\ m_writes[1] = <<"back_buffer">>
    /\ Range(m_reads[1]) \cap Textures = {}

\* stage x writes the texture, stage y reads it once and writes the back buffer
TwoPassChain(x, y) ==
    /\ m_stages = 2
    /\ x # y
    /\ m_writes[x] = <<"texture">>
    /\ Range(m_reads[x]) \cap Textures = {}
    /\ m_writes[y] = <<"back_buffer">>
    /\ Range(m_reads[y]) \cap Textures = {"texture"}
    /\ Occurrences(m_reads[y], "texture") = 1

\* C13: compile(back buffer) of a single pass gives the order [that pass], and of the
\* chain X writes T, Y reads T and writes the back buffer gives the order [X, Y].
LinearChainOrder ==
    compile_state # "declared" =>
        /\ SinglePass => (compile_state # "stack_overflow" /\ m_stage_stack = <<1>>)
        /\ \A x, y \in Registered :
               TwoPassChain(x, y) => (compile_state # "stack_overflow" /\ m_stage_stack = <<x, y>>)

LinearChainOrderWitness ==
    /\ compile_state = "compiled"
    /\ TwoPassChain(2, 1)
    /\ m_stage_stack = <<2, 1>>

\* positions of a step in the steps of the last call
StepsOf(op) == {i \in DOMAIN host_log : host_log[i].op = op}

\* C14: in recreate_swapchain the old render graph is destroyed only after the wait
\* for the idle device has returned, when the GPU works on no frame any more.
DestroyAfterDeviceIdle ==
    \A i \in StepsOf("destroy_render_graph") :
        /\ ~host_log[i].gpu_busy
        /\ \E j \in StepsOf("device_wait_idle") : j < i

DestroyAfterDeviceIdleWitness ==
    /\ StepsOf("destroy_render_graph") # {}
    /\ host_log[1].gpu_busy
    /\ m_render_graph = 2

\* C15: a frame that is no resize frame waits for the fence, resets it, acquires the
\* image, renders and presents, each once and in this order; the fence was signaled,
\* and present waits on the semaphore render returned.
FrameStepOrder ==
    [][(host_frames' = host_frames + 1 /\ ~m_window_resized) =>
          /\ m_frame_finished_fence
          /\ Len(host_log') = 5
          /\ host_log'[1].op = "fence_block"
          /\ host_log'[2].op = "fence_reset"
          /\ host_log'[3].op = "acquire_next_image"
          /\ host_log'[4].op = "render"
          /\ host_log'[5].op = "present"
          /\ host_log'[5].waits = host_log'[4].signals
          /\ host_log'[5].waits # ""
          /\ frames' = frames + 1]_vars

FrameStepOrderWitness ==
    /\ host_frames = 2
    /\ frames = 2
    /\ StepsOf("present") # {}
    /\ in_flight

\* C16: a render_frame call that finds the resize flag set clears it, makes one new
\* graph, declares and compiles it once and records no frame; the order of the new
\* graph is the order of the old one, and every pointer the application holds points
\* into the new graph.
ResizeRecompiles ==
    [][(host_frames' = host_frames + 1 /\ m_window_resized) =>
          /\ ~m_window_resized'
          /\ \A op \in {"make_render_graph", "setup_render_graph", "compile"} :
                 Cardinality({i \in DOMAIN host_log' : host_log'[i].op = op}) = 1
          /\ \A i \in DOMAIN host_log' : host_log'[i].op # "render"
          /\ frames' = frames
          /\ trace' = <<>>
          /\ vk_failed' = NoFailure => compile_state' = compile_state
          /\ m_stage_stack' = m_stage_stack
          /\ m_render_graph' # m_render_graph
          /\ \A p \in HostPointers : host_refs'[p] = m_render_graph'
          /\ \A b \in Buffers : m_buffer'[b] = 0]_vars

ResizeRecompilesWitness ==
    /\ host_frames = 2
    /\ frames = 1
    /\ m_render_graph = 2
    /\ ~m_window_resized
    /\ Len(m_stage_stack) = 2
    /\ StepsOf("compile") # {}

\* the stages of the order before the first place of a stage
StagesBefore(stage) ==
    {m_stage_stack[j] : j \in {i \in DOMAIN m_stage_stack :
                                  \A k \in 1..i : m_stage_stack[k] # stage}}

\* C17: when vkCreateRenderPass or vkCreateDescriptorSetLayout returns no VK_SUCCESS the
\* operation ends with a VulkanException that names the call and carries the result,
\* and nothing that follows the call in the operation has been done.
VulkanFailureRaised ==
    vk_failed # NoFailure =>
        /\ thrown = VulkanException(vk_failed)
        /\ thrown.result \in VkErrors
        /\ vk_failed.op = "vkCreateRenderPass" =>
               /\ compile_state = "vulkan_exception"
               /\ \A i \in DOMAIN gpu_log :
                      gpu_log[i].stage # 0 => gpu_log[i].stage \in StagesBefore(vk_failed.stage)
               /\ \A s \in Stages \ StagesBefore(vk_failed.stage) :
                      ~m_pipeline[s] /\ m_framebuffers[s] = <<>>
        /\ vk_failed.op = "vkCreateDescriptorSetLayout" =>
               /\ descriptor_set_layout.state = "failed"
               /\ descriptor_set_layout.debug_name = ""
               /\ host_state = "terminated"

VulkanFailureRaisedWitness ==
    /\ vk_failed.op = "vkCreateRenderPass"
    /\ vk_failed.result = "VK_ERROR_OUT_OF_DEVICE_MEMORY"
    /\ Len(m_stage_stack) = 2
    /\ vk_failed.stage = m_stage_stack[2]
    /\ gpu_log # <<>>
    /\ descriptor_set_layout.state = "made"

\* C18: a stage that reads or writes a resource the graph has not registered is found
\* when it is declared or compiled: compile() does not complete and no frame is rendered.
UnregisteredResourceDetected ==
    (\E s \in Registered : (Range(m_reads[s]) \cup Range(m_writes[s])) \cap Unregistered # {}) =>
        (compile_state # "compiled" /\ frames = 0)

BufferOps == {"create_buffer", "destroy_buffer"}

\* C19: in a render() call every destroy and create of a buffer comes before the first
\* command of a pass, a destroyed buffer is created again right after its destroy and
\* never destroyed after its create, and a buffer that replaces one has the destroy.
ReplaceBeforeRecording ==
    frames > 0 =>
        /\ \A i, j \in DOMAIN trace :
               (trace[i].cmd \in BufferOps /\ trace[j].cmd \notin BufferOps) => i < j
        /\ \A i \in DOMAIN trace :
               trace[i].cmd = "destroy_buffer" =>
                   /\ i < Len(trace)
                   /\ trace[i + 1].cmd = "create_buffer"
                   /\ trace[i + 1].bufs = trace[i].bufs
        /\ \A i, j \in DOMAIN trace :
               (/\ trace[i].cmd = "create_buffer"
                /\ trace[j].cmd = "destroy_buffer"
                /\ trace[i].bufs = trace[j].bufs) => j < i
        /\ \A i \in DOMAIN trace :
               (trace[i].cmd = "create_buffer" /\ m_buffer[trace[i].bufs[1]] >= 2) =>
                   (i > 1 /\ trace[i - 1] = Cmd("destroy_buffer", 0, trace[i].bufs))

ReplaceBeforeRecordingWitness ==
    /\ frames = 2
    /\ \E i, j \in DOMAIN trace :
           /\ trace[i].cmd = "destroy_buffer"
           /\ trace[j].cmd = "begin_render_pass"
    /\ \E b \in Buffers : m_buffer[b] = 2

\* C20: a render() call records as many full barriers as the execution order has
\* passes, each right after the end of its pass, and every command recorded between
\* the barrier of pass k-1 and the barrier of pass k belongs to pass k.
BarrierAfterEveryPass ==
    frames > 0 =>
        LET cmds == PassCommands
            barriers == SelectSeq(cmds, LAMBDA c : c.cmd = "full_barrier")
        IN /\ Len(barriers) = Len(m_stage_stack)
           /\ \A k \in DOMAIN m_stage_stack : barriers[k].stage = m_stage_stack[k]
           /\ \A i \in DOMAIN cmds :
                  cmds[i].cmd = "end_render_pass" =>
                      (i < Len(cmds) /\ cmds[i + 1] = Cmd("full_barrier", cmds[i].stage, <<>>))
           /\ \A k \in DOMAIN m_stage_stack :
                  \A i \in DOMAIN cmds :
                      (BarrierAt(cmds, k - 1) < i /\ i <= BarrierAt(cmds, k)) =>
                          cmds[i].stage = m_stage_stack[k]
           /\ cmds # <<>> => cmds[Len(cmds)].cmd = "full_barrier"

BarrierAfterEveryPassWitness ==
    /\ frames > 0
    /\ Len(m_stage_stack) = 2
    /\ Len(SelectSeq(trace, LAMBDA c : c.cmd = "full_barrier")) = 2
    /\ \E i \in DOMAIN trace : trace[i].cmd = "create_buffer"

\* the textures of the stage handed to build_render_pass, in the order of m_writes
WrittenTextures == SelectSeq(attach_stage.m_writes, LAMBDA r : r.usage \in TextureUsages)

\* C21: the attachment of a written texture has load-op CLEAR when the stage clears the
\* screen, else LOAD for a back buffer and DONT_CARE for another texture; store-op STORE;
\* final layout present for a back buffer, depth-stencil-attachment-optimal for a depth
\* buffer, colour-attachment-optimal otherwise; initial layout present exactly for a
\* back buffer of a stage that does not clear.
AttachmentOps ==
    render_pass_ci.made =>
        /\ Len(render_pass_ci.attachments) = Len(WrittenTextures)
        /\ \A k \in DOMAIN WrittenTextures :
               LET a == render_pass_ci.attachments[k]
                   usage == WrittenTextures[k].usage
                   clears == attach_stage.m_clears_screen
               IN /\ clears => a.loadOp = "CLEAR"
                  /\ (~clears /\ usage = "BACK_BUFFER") => a.loadOp = "LOAD"
                  /\ (~clears /\ usage # "BACK_BUFFER") => a.loadOp = "DONT_CARE"
                  /\ a.storeOp = "STORE"
                  /\ usage = "BACK_BUFFER" => a.finalLayout = "PRESENT_SRC_KHR"
                  /\ usage = "DEPTH_STENCIL_BUFFER" =>
                         a.finalLayout = "DEPTH_STENCIL_ATTACHMENT_OPTIMAL"
                  /\ usage = "NORMAL" => a.finalLayout = "COLOR_ATTACHMENT_OPTIMAL"
                  /\ (a.initialLayout = "PRESENT_SRC_KHR") <=> (usage = "BACK_BUFFER" /\ ~clears)

AttachmentOpsWitness ==
    /\ render_pass_ci.made
    /\ ~attach_stage.m_clears_screen
    /\ \E k \in DOMAIN render_pass_ci.attachments : render_pass_ci.attachments[k].loadOp = "LOAD"
    /\ \E k \in DOMAIN render_pass_ci.attachments :
           render_pass_ci.attachments[k].finalLayout = "DEPTH_STENCIL_ATTACHMENT_OPTIMAL"
    /\ \E k \in DOMAIN render_pass_ci.attachments : render_pass_ci.attachments[k].loadOp = "DONT_CARE"

ColourTextures == SelectSeq(WrittenTextures, LAMBDA r : r.usage # "DEPTH_STENCIL_BUFFER")
DepthTextures == SelectSeq(WrittenTextures, LAMBDA r : r.usage = "DEPTH_STENCIL_BUFFER")

\* the reference indexes an attachment description, and it is the one of the texture
RefersTo(ref, texture) ==
    /\ ref.attachment < Len(render_pass_ci.attachments)
    /\ render_pass_ci.attachments[ref.attachment + 1].format = texture.m_format

\* C25: every colour and depth attachment reference of the render pass indexes the
\* attachment description made for the same texture, below the number of descriptions,
\* for every list of writes.
AttachmentRefsInRange ==
    render_pass_ci.made =>
        /\ Len(render_pass_ci.colour_refs) = Len(ColourTextures)
        /\ Len(render_pass_ci.depth_refs) = Len(DepthTextures)
        /\ \A k \in DOMAIN render_pass_ci.colour_refs :
               RefersTo(render_pass_ci.colour_refs[k], ColourTextures[k])
        /\ \A k \in DOMAIN render_pass_ci.depth_refs :
               RefersTo(render_pass_ci.depth_refs[k], DepthTextures[k])

\* C22: after compile() every stage of the execution order has one framebuffer per
\* swapchain image, and the framebuffer of an image holds one view per texture the
\* stage writes: the view of the swapchain image for a back buffer, the view of its
\* own image for another texture.
FramebufferPerSwapImage ==
    compile_state = "compiled" =>
        \A i \in DOMAIN m_stage_stack :
            LET s == m_stage_stack[i]
                fbs == m_framebuffers[s]
            IN /\ Len(fbs) = NumSwapImages
               /\ \A k \in DOMAIN fbs :
                      /\ Len(fbs[k]) = Len(SelectSeq(m_writes[s], LAMBDA r : r \in Textures))
                      /\ \A t \in Textures :
                             Occurrences(m_writes[s], t) =
                                 Len(SelectSeq(fbs[k],
                                               LAMBDA v : IF m_usage[t] = "BACK_BUFFER"
                                                          THEN v = SwapchainView(k - 1)
                                                          ELSE v = ImageView(t)))

FramebufferPerSwapImageWitness ==
    /\ compile_state = "compiled"
    /\ Len(m_stage_stack) >= 2
    /\ \E s \in Range(m_stage_stack) : {"back_buffer", "texture"} \subseteq Range(m_writes[s])
    /\ \E s \in Range(m_stage_stack) : Len(m_framebuffers[s][NumSwapImages]) = 1

\* no stage declares the same read or the same write twice
DeclaredOnce ==
    \A s \in Registered, r \in Resources :
        Occurrences(m_reads[s], r) <= 1 /\ Occurrences(m_writes[s], r) <= 1

\* C23: the execution order of an acyclic graph, each declaration made once, contains
\* every stage at most once.
StageOrderHasNoDuplicates ==
    (compile_state # "declared" /\ Acyclic /\ DeclaredOnce) =>
        \A i, j \in DOMAIN m_stage_stack : m_stage_stack[i] = m_stage_stack[j] => i = j

\* C24: a compile() call on a compiled graph whose declarations are unchanged leaves
\* the execution order as the call before left it.
CompileIdempotent ==
    [][(compile_state = "compiled" /\ compiles' = compiles + 1 /\ compile_state' = "compiled")
           => m_stage_stack' = m_stage_stack]_vars

DestroysBuffer(cmds) == \E i \in DOMAIN cmds : cmds[i].cmd = "destroy_buffer"

\* C26: a render() call destroys a buffer only when the GPU has finished the frame
\* submitted before, the host having waited on the frame-finished fence in the same
\* render_frame call before render().
NoDestroyInFlight ==
    [][(frames' = frames + 1 /\ DestroysBuffer(trace')) =>
           /\ ~in_flight
           /\ m_frame_finished_fence
           /\ \E i, j \in DOMAIN host_log' :
                  /\ i < j
                  /\ host_log'[i].op = "fence_block"
                  /\ host_log'[j].op = "render"]_vars

NoDestroyInFlightWitness ==
    /\ host_state = "running"
    /\ host_frames >= 2
    /\ frames >= 2
    /\ DestroysBuffer(trace)
    /\ in_flight

\* C27: whenever the running application has an unsignaled frame-finished fence, the
\* fence becomes signaled, given that the GPU completes the work submitted to it.
FenceEventuallySignaled ==
    (host_state = "running" /\ ~m_frame_finished_fence) ~> m_frame_finished_fence

FenceEventuallySignaledWitness ==
    /\ host_state = "running"
    /\ ~m_frame_finished_fence
    /\ in_flight
    /\ host_frames >= 1
    /\ resizes >= 1

\* the stages that write the target are independent of each other
IndependentTargetWriters ==
    \A a, b \in TargetWriters : a # b => a \notin DependsOn(b)

\* C28: when the stages that write the target do not depend on each other, they are in
\* the execution order in the order of their registration.
RegistrationOrderKept ==
    (compile_state = "compiled" /\ IndependentTargetWriters) =>
        \A a, b \in TargetWriters :
            a < b =>
                /\ a \in Range(m_stage_stack)
                /\ b \in Range(m_stage_stack)
                /\ \A i, j \in DOMAIN m_stage_stack :
                       (m_stage_stack[i] = a /\ m_stage_stack[j] = b) => i < j

RegistrationOrderKeptWitness ==
    /\ compile_state = "compiled"
    /\ IndependentTargetWriters
    /\ Cardinality(TargetWriters) = 2
    /\ m_stage_stack = <<1, 2>>
    /\ \E s \in TargetWriters : m_reads[s] # <<>>

MoveTransfersState ==
    [][builder_state' = "move_constructed" => builder' = builder]_vars

====
